---------------------------- MODULE Spec2Model ----------------------------
(* "The Three Runtimes": the orchestrator screen (AntigravityScreen.tsx)   *)
(* and the worker column (WorkerColumn.tsx) as one state machine.          *)
(*                                                                         *)
(* Three scheduling domains take steps:                                    *)
(*   main JS thread : interval tick, press handler, jam timeout callback,  *)
(*                    window resize, unmount (none while busy-waiting)     *)
(*   UI thread      : the per-frame poller and the bounce animation        *)
(*   worker runtime : the 1500 ms work loop                                *)
(* plus the timers and the user (touches), which no thread can hold back.  *)
(*                                                                         *)
(* Lengths are in hundredths of a pixel where the bound is involved, so    *)
(* that SCREEN_HEIGHT * 0.35 is exact: 0.35 = PctNum / PctDen.             *)
(* Time is in ms and advances in steps of TimeStep; the 16 ms interval,    *)
(* the 50 ms delay and the frames are shorter than one step and untimed.   *)
EXTENDS Integers, Sequences, FiniteSets

VARIABLES
    \* ---- AntigravityScreen (main JS thread) ----
    mounted,          \* the screen is mounted
    SCREEN_HEIGHT,    \* useWindowDimensions().height
    bridgePos,        \* useState(0), px
    bridgeDirection,  \* useRef(1).current
    intervals,        \* number of active 16 ms intervals
    tickDue,          \* interval callbacks due and not yet run
    isJammed,         \* useState(false)
    touches,          \* presses of the jam button not yet handled by JS
    jamQueue,         \* jam timeouts scheduled and not yet fired (ids, FIFO)
    blocking,         \* id of the jam whose busy-wait occupies the thread, 0 if none
    elapsed,          \* Date.now() - start inside the busy-wait
    rocketTarget,     \* bound of the animation program held by rocketPos
    rocketAssigns,    \* assignments to rocketPos.value so far
    \* ---- RocketAppleColumn (UI thread) ----
    rocketFrom,       \* rocketPos.value when the running program was assigned
    rocketPos,        \* rocketPos.value at the latest frame (hundredths of px)
    rocketGrain,      \* spacing of the values of rocketPos looked at (fixed at Init)
    appleRotation,    \* degrees in the appleRotation style
    angleLabel,       \* degrees in the text of the angle label
    \* ---- WorkerColumn ----
    runtimes,         \* worklet runtimes created so far
    workerCell,       \* Synchronizable captured by the worker loop
    pollerCell,       \* Synchronizable captured by the frame callback
    cellVal,          \* committed value of each Synchronizable
    workerPc,         \* "idle" | "busy" (sqrt loop) | "locked" (inside setBlocking)
    workerPrev,       \* prev read inside setBlocking
    workerLeft,       \* ms until the worker interval is due
    displayCount,     \* SharedValue mirrored on the UI thread
    ballY,            \* SharedValue, last settled value (hundredths of px)
    anim,             \* "rest" | "down" | "up": running leg of the bounce
    animTo,           \* target of the running leg
    animLeft,         \* ms left of the running leg
    counterLabel,     \* the number in the text written by counterProps
    \* ---- history ----
    tickBudget,       \* how many interval callbacks ticks counts (fixed at Init)
    ticks,            \* interval callbacks run, counted up to tickBudget
    resizes,          \* changes of the window height
    jams,             \* calls of jamJSThread
    jamLog,           \* <<id, event>>: "true", "begin", "end", "false"; <<0, "unmount">>
    fires,            \* completed worker firings
    bounces,          \* bounces started by the poller
    lastSeen,         \* counter value read by the preceding frame, -1 before the first
    sawSame,          \* the latest frame read the same value as the frame before it
    firesAtBegin,     \* fires when the latest busy-wait began
    bouncesAtBegin    \* bounces when the latest busy-wait began

mainVars == <<mounted, SCREEN_HEIGHT, bridgePos, bridgeDirection, intervals, tickDue,
              isJammed, touches, jamQueue, blocking, elapsed, rocketTarget,
              rocketAssigns>>
renderVars == <<runtimes, workerCell, pollerCell>>
workerVars == <<workerPc, workerPrev, workerLeft>>
uiVars == <<displayCount, ballY, anim, animTo, animLeft, counterLabel>>
rocketVars == <<rocketFrom, rocketPos, rocketGrain, appleRotation, angleLabel>>
tickHist == <<tickBudget, ticks>>
jamHist == <<jams, jamLog, firesAtBegin, bouncesAtBegin>>
uiHist == <<bounces, lastSeen, sawSame>>
histVars == <<tickHist, resizes, jamHist, fires, uiHist>>
vars == <<mainVars, rocketVars, renderVars, cellVal, workerVars, uiVars, histVars>>

\* ------------------------------------------------------------------
\* Bounds of the model
LongRun == 60
MaxResizes == 1
MaxJams == 2
MaxCount == 4
ScreenHeights == {20, 40}
TickerHeights == {0, 20, 40, 50}
AngleHeights == {1, 2, 16, 20}
RocketCoarse == 350

\* ------------------------------------------------------------------
\* Program constants
STEP == 5
FALLBACK_HEIGHT == 250
PctNum == 35
PctDen == 100
JamDuration == 3000
WorkerPeriod == 1500
BounceLegMs == 500
TimeStep == BounceLegMs

Max(a, b) == IF a >= b THEN a ELSE b

\* ------------------------------------------------------------------
\* AntigravityScreen

\* BOUNCE_HEIGHT = SCREEN_HEIGHT > 0 ? SCREEN_HEIGHT * 0.35 : 250, times PctDen
MutBounceHeightNoFallback(h) == h * PctNum
BounceHeightOf(h) == IF h > 0 THEN h * PctNum ELSE FALLBACK_HEIGHT * PctDen
BOUNCE_HEIGHT == BounceHeightOf(SCREEN_HEIGHT)

\* the setBridgePos updater: next = prev + 5 * bridgeDirection.current
NextPos(prev, dir) == prev + STEP * dir
\* if (next >= BOUNCE_HEIGHT || next <= 0) bridgeDirection.current *= -1
MutNextDirStrict(next, dir, bound) ==
    IF next * PctDen > bound \/ next < 0 THEN -dir ELSE dir
MutNextDirOutwardOnly(next, dir, bound) ==
    IF (next * PctDen >= bound /\ dir = 1) \/ (next <= 0 /\ dir = -1) THEN -dir ELSE dir
NextDir(next, dir, bound) ==
    IF next * PctDen >= bound \/ next <= 0 THEN -dir ELSE dir


\* The interval callback body (the setBridgePos updater and the ref flip).
BridgeUpdate ==
    LET next == NextPos(bridgePos, bridgeDirection) IN
    /\ bridgePos' = next
    /\ bridgeDirection' = NextDir(next, bridgeDirection, BOUNCE_HEIGHT)

\* A period of setInterval(..., 16) elapses. The timer belongs to the host,
\* not to this source; it is taken here to follow the HTML timer contract, in
\* which an interval has at most one callback pending and periods that elapse
\* while one is pending add nothing.
QueueTick(due, n) == n

\* ------------------------------------------------------------------
\* WorkerColumn: what one render of the component does

Cells == 1..3
\* the Synchronizable made by the first render, kept in the useRef
RefCell == 1
\* the Synchronizable that this render's createSynchronizable(0) makes
\* (the lowest cell nothing refers to)
FreshCell ==
    CHOOSE c \in Cells :
        /\ c \notin {RefCell, workerCell, pollerCell}
        /\ \A d \in Cells : d \notin {RefCell, workerCell, pollerCell} => c <= d

\* const bgCount = useRef(createSynchronizable(0)).current
MutBgCountNoRef(fresh) == fresh
bgCount(fresh) == RefCell

\* if (!runtimeRef.current)
MutNoRuntimeGuard(created) == TRUE
NeedsRuntime(created) == created = 0

RenderWorkerColumn ==
    /\ runtimes' = IF NeedsRuntime(runtimes) THEN runtimes + 1 ELSE runtimes
    /\ workerCell' = IF runtimes = 0 THEN bgCount(FreshCell) ELSE workerCell
    /\ pollerCell' = bgCount(FreshCell)
    /\ cellVal' = [cellVal EXCEPT ![FreshCell] = 0]

\* ------------------------------------------------------------------
\* State after the first render and its effects
InitWith(heights, budget) ==
    /\ rocketFrom = 0
    /\ rocketPos = 0
    /\ appleRotation = 0
    /\ angleLabel = 0
    /\ counterLabel = 0
    /\ mounted = TRUE
    /\ SCREEN_HEIGHT \in heights
    /\ bridgePos = 0
    /\ bridgeDirection = 1
    /\ intervals = 1
    /\ tickDue = 0
    /\ isJammed = FALSE
    /\ touches = 0
    /\ jamQueue = <<>>
    /\ blocking = 0
    /\ elapsed = 0
    /\ rocketTarget = (IF BOUNCE_HEIGHT > 0 THEN BOUNCE_HEIGHT ELSE 0)
    /\ rocketAssigns = (IF BOUNCE_HEIGHT > 0 THEN 1 ELSE 0)
    /\ runtimes = IF NeedsRuntime(0) THEN 1 ELSE 0
    /\ workerCell = bgCount(RefCell)
    /\ pollerCell = bgCount(RefCell)
    /\ cellVal = [c \in Cells |-> 0]
    /\ workerPc = "idle"
    /\ workerPrev = 0
    /\ workerLeft = WorkerPeriod
    /\ displayCount = 0
    /\ ballY = 0
    /\ anim = "rest"
    /\ animTo = 0
    /\ animLeft = 0
    /\ tickBudget = budget
    /\ ticks = 0
    /\ resizes = 0
    /\ jams = 0
    /\ jamLog = <<>>
    /\ fires = 0
    /\ bounces = 0
    /\ lastSeen = -1
    /\ sawSame = FALSE
    /\ firesAtBegin = 0
    /\ bouncesAtBegin = 0

Init == InitWith(ScreenHeights, 0) /\ rocketGrain = RocketCoarse

\* ------------------------------------------------------------------
\* Main JS thread

\* a 16 ms period of the interval elapses (timer, not the JS thread)
IntervalElapse ==
    /\ intervals > 0
    /\ tickDue' = QueueTick(tickDue, intervals)
    /\ UNCHANGED <<mounted, SCREEN_HEIGHT, bridgePos, bridgeDirection, intervals,
                   isJammed, touches, jamQueue, blocking, elapsed, rocketTarget,
                   rocketAssigns, renderVars, cellVal, workerVars, uiVars, histVars, rocketVars>>

\* the interval callback runs, and the screen re-renders
MutTickReassigns ==
    /\ blocking = 0
    /\ tickDue > 0
    /\ BridgeUpdate
    /\ tickDue' = tickDue - 1
    /\ ticks' = IF ticks < tickBudget THEN ticks + 1 ELSE ticks
    /\ RenderWorkerColumn
    /\ rocketFrom' = rocketPos
    /\ rocketAssigns' = rocketAssigns + 1
    /\ UNCHANGED <<mounted, SCREEN_HEIGHT, intervals, isJammed, touches, jamQueue,
                   blocking, elapsed, rocketTarget, rocketPos, rocketGrain, appleRotation,
                   angleLabel, workerVars, uiVars, tickBudget, resizes, jamHist, fires,
                   uiHist>>
Tick ==
    /\ blocking = 0
    /\ tickDue > 0
    /\ BridgeUpdate
    /\ tickDue' = tickDue - 1
    /\ ticks' = IF ticks < tickBudget THEN ticks + 1 ELSE ticks
    /\ RenderWorkerColumn
    /\ UNCHANGED <<mounted, SCREEN_HEIGHT, intervals, isJammed, touches, jamQueue,
                   blocking, elapsed, rocketTarget, rocketAssigns,
                   workerVars, uiVars, tickBudget, resizes, jamHist, fires, uiHist, rocketVars>>

\* the user presses the jam button (native side)
Touch ==
    /\ mounted
    /\ jams + touches < MaxJams
    /\ touches' = touches + 1
    /\ UNCHANGED <<mounted, SCREEN_HEIGHT, bridgePos, bridgeDirection, intervals, tickDue,
                   isJammed, jamQueue, blocking, elapsed, rocketTarget, rocketAssigns,
                   renderVars, cellVal, workerVars, uiVars, histVars, rocketVars>>

\* onPress={jamJSThread}: setIsJammed(true); setTimeout(..., 50)
MutJamNoFlag ==
    /\ mounted
    /\ blocking = 0
    /\ touches > 0
    /\ touches' = touches - 1
    /\ jams' = jams + 1
    /\ jamQueue' = Append(jamQueue, jams + 1)
    /\ RenderWorkerColumn
    /\ UNCHANGED <<mounted, SCREEN_HEIGHT, bridgePos, bridgeDirection, intervals, tickDue,
                   isJammed, blocking, elapsed, rocketTarget, rocketAssigns,
                   workerVars, uiVars, tickHist, resizes, jamLog, firesAtBegin,
                   bouncesAtBegin, fires, uiHist, rocketVars>>
MutJamGuarded ==
    /\ mounted
    /\ blocking = 0
    /\ touches > 0
    /\ touches' = touches - 1
    /\ jams' = jams + 1
    /\ IF isJammed
         THEN UNCHANGED <<isJammed, jamLog, jamQueue>>
         ELSE /\ isJammed' = TRUE
              /\ jamLog' = Append(jamLog, <<jams + 1, "true">>)
              /\ jamQueue' = Append(jamQueue, jams + 1)
    /\ RenderWorkerColumn
    /\ UNCHANGED <<mounted, SCREEN_HEIGHT, bridgePos, bridgeDirection, intervals, tickDue,
                   blocking, elapsed, rocketTarget, rocketAssigns,
                   workerVars, uiVars, tickHist, resizes, firesAtBegin, bouncesAtBegin,
                   fires, uiHist, rocketVars>>
jamJSThread ==
    /\ mounted
    /\ blocking = 0
    /\ touches > 0
    /\ touches' = touches - 1
    /\ jams' = jams + 1
    /\ isJammed' = TRUE
    /\ jamLog' = Append(jamLog, <<jams + 1, "true">>)
    /\ jamQueue' = Append(jamQueue, jams + 1)
    /\ RenderWorkerColumn
    /\ UNCHANGED <<mounted, SCREEN_HEIGHT, bridgePos, bridgeDirection, intervals, tickDue,
                   blocking, elapsed, rocketTarget, rocketAssigns,
                   workerVars, uiVars, tickHist, resizes, firesAtBegin, bouncesAtBegin,
                   fires, uiHist, rocketVars>>

\* the timeout callback starts: const start = Date.now(); while (...) {}
\* (the timeout is never cleared, so it also fires after an unmount)
JamTimeout ==
    /\ blocking = 0
    /\ jamQueue # <<>>
    /\ blocking' = Head(jamQueue)
    /\ jamQueue' = Tail(jamQueue)
    /\ elapsed' = 0
    /\ jamLog' = Append(jamLog, <<Head(jamQueue), "begin">>)
    /\ firesAtBegin' = fires
    /\ bouncesAtBegin' = bounces
    /\ UNCHANGED <<mounted, SCREEN_HEIGHT, bridgePos, bridgeDirection, intervals, tickDue,
                   isJammed, touches, rocketTarget, rocketAssigns, renderVars, cellVal,
                   workerVars, uiVars, tickHist, resizes, jams, fires, uiHist, rocketVars>>

\* while (Date.now() - start < 3000) {}
MutSpinsShort(ms) == ms < TimeStep
Spins(ms) == ms < JamDuration

\* the loop exits and setIsJammed(false) runs; a state update of an
\* unmounted component is dropped by React
BlockEnd ==
    /\ blocking # 0
    /\ ~Spins(elapsed)
    /\ blocking' = 0
    /\ elapsed' = 0
    /\ jamLog' = jamLog \o << <<blocking, "end">>, <<blocking, "false">> >>
    /\ isJammed' = IF mounted THEN FALSE ELSE isJammed
    /\ IF mounted THEN RenderWorkerColumn ELSE UNCHANGED <<renderVars, cellVal>>
    /\ UNCHANGED <<mounted, SCREEN_HEIGHT, bridgePos, bridgeDirection, intervals, tickDue,
                   touches, jamQueue, rocketTarget, rocketAssigns,
                   workerVars, uiVars, tickHist, resizes, jams, firesAtBegin,
                   bouncesAtBegin, fires, uiHist, rocketVars>>

\* the window height changes: re-render, then both effects of [BOUNCE_HEIGHT]
\* run again (the interval is cleared and restarted, rocketPos reassigned)
MutResizeNoCleanup ==
    /\ mounted
    /\ blocking = 0
    /\ resizes < MaxResizes
    /\ \E h \in ScreenHeights \ {SCREEN_HEIGHT} :
        /\ SCREEN_HEIGHT' = h
        /\ IF BounceHeightOf(h) > 0
             THEN /\ rocketTarget' = BounceHeightOf(h)
                  /\ rocketFrom' = rocketPos
                  /\ rocketAssigns' = rocketAssigns + 1
             ELSE UNCHANGED <<rocketTarget, rocketFrom, rocketAssigns>>
    /\ intervals' = intervals + 1
    /\ tickDue' = tickDue
    /\ resizes' = resizes + 1
    /\ RenderWorkerColumn
    /\ UNCHANGED <<mounted, bridgePos, bridgeDirection, isJammed, touches, jamQueue,
                   blocking, elapsed, workerVars, uiVars,
                   tickHist, jamHist, fires, uiHist,
                   rocketPos, rocketGrain, appleRotation, angleLabel>>
Resize ==
    /\ mounted
    /\ blocking = 0
    /\ resizes < MaxResizes
    /\ \E h \in ScreenHeights \ {SCREEN_HEIGHT} :
        /\ SCREEN_HEIGHT' = h
        /\ IF BounceHeightOf(h) > 0
             THEN /\ rocketTarget' = BounceHeightOf(h)
                  /\ rocketFrom' = rocketPos
                  /\ rocketAssigns' = rocketAssigns + 1
             ELSE UNCHANGED <<rocketTarget, rocketFrom, rocketAssigns>>
    /\ intervals' = (intervals - 1) + 1
    /\ tickDue' = 0
    /\ resizes' = resizes + 1
    /\ RenderWorkerColumn
    /\ UNCHANGED <<mounted, bridgePos, bridgeDirection, isJammed, touches, jamQueue,
                   blocking, elapsed, workerVars, uiVars,
                   tickHist, jamHist, fires, uiHist,
                   rocketPos, rocketGrain, appleRotation, angleLabel>>

\* the screen unmounts: return () => clearInterval(interval); the jam
\* timeouts are left scheduled
MutUnmountClearsTimeout ==
    /\ mounted
    /\ blocking = 0
    /\ mounted' = FALSE
    /\ intervals' = 0
    /\ tickDue' = 0
    /\ jamQueue' = <<>>
    /\ jamLog' = Append(jamLog, <<0, "unmount">>)
    /\ UNCHANGED <<SCREEN_HEIGHT, bridgePos, bridgeDirection, isJammed, touches,
                   blocking, elapsed, rocketTarget, rocketAssigns, renderVars, cellVal,
                   workerVars, uiVars, tickHist, resizes, jams, firesAtBegin,
                   bouncesAtBegin, fires, uiHist, rocketVars>>
MutUnmountKeepsInterval ==
    /\ mounted
    /\ blocking = 0
    /\ mounted' = FALSE
    /\ jamLog' = Append(jamLog, <<0, "unmount">>)
    /\ UNCHANGED <<SCREEN_HEIGHT, bridgePos, bridgeDirection, intervals, tickDue,
                   isJammed, touches, jamQueue,
                   blocking, elapsed, rocketTarget, rocketAssigns, renderVars, cellVal,
                   workerVars, uiVars, tickHist, resizes, jams, firesAtBegin,
                   bouncesAtBegin, fires, uiHist, rocketVars>>
Unmount ==
    /\ mounted
    /\ blocking = 0
    /\ mounted' = FALSE
    /\ intervals' = 0
    /\ tickDue' = 0
    /\ jamLog' = Append(jamLog, <<0, "unmount">>)
    /\ UNCHANGED <<SCREEN_HEIGHT, bridgePos, bridgeDirection, isJammed, touches, jamQueue,
                   blocking, elapsed, rocketTarget, rocketAssigns, renderVars, cellVal,
                   workerVars, uiVars, tickHist, resizes, jams, firesAtBegin,
                   bouncesAtBegin, fires, uiHist, rocketVars>>

\* ------------------------------------------------------------------
\* Worker runtime: setInterval(() => { sqrt loop; bgCount.setBlocking(...) }, 1500)

\* (prev) => prev + 1
MutIncrementNone(prev) == prev
Increment(prev) == prev + 1

\* the worker interval is due and the sqrt loop starts
MutWorkerOnMain ==
    /\ blocking = 0
    /\ runtimes > 0
    /\ workerPc = "idle"
    /\ workerLeft = 0
    /\ fires < MaxCount
    /\ workerPc' = "busy"
    /\ workerLeft' = WorkerPeriod
    /\ UNCHANGED <<mainVars, renderVars, cellVal, workerPrev, uiVars, histVars, rocketVars>>
WorkerStart ==
    /\ runtimes > 0
    /\ workerPc = "idle"
    /\ workerLeft = 0
    /\ fires < MaxCount
    /\ workerPc' = "busy"
    /\ workerLeft' = WorkerPeriod
    /\ UNCHANGED <<mainVars, renderVars, cellVal, workerPrev, uiVars, histVars, rocketVars>>

\* setBlocking takes the lock and reads prev
WorkerLock ==
    /\ workerPc = "busy"
    /\ workerPc' = "locked"
    /\ workerPrev' = cellVal[workerCell]
    /\ UNCHANGED <<mainVars, renderVars, cellVal, workerLeft, uiVars, histVars, rocketVars>>

\* setBlocking stores the result and releases the lock
WorkerWrite ==
    /\ workerPc = "locked"
    /\ workerPc' = "idle"
    /\ cellVal' = [cellVal EXCEPT ![workerCell] = Increment(workerPrev)]
    /\ fires' = fires + 1
    /\ UNCHANGED <<mainVars, renderVars, workerPrev, workerLeft, uiVars,
                   tickHist, resizes, jamHist, uiHist, rocketVars>>

\* ------------------------------------------------------------------
\* UI thread

\* counterProps: text: `${displayCount.value} runs` (the number of the text)
CounterText(n) == n
\* the value of displayCount that counterProps reads in the frame in which
\* the frame callback wrote it: the mapper runs after the callback, in the
\* same frame
MutLabelInputStale(before, after) == before
LabelInput(before, after) == after

\* displayCount.value !== current
MutChangedAlways(shown, current) == TRUE
Changed(shown, current) == shown # current

\* useFrameCallback: one frame of the poller (bgCount.getDirty() takes no lock)
Frame ==
    /\ mounted
    /\ LET current == cellVal[pollerCell] IN
       /\ lastSeen' = current
       /\ sawSame' = (lastSeen = current)
       /\ IF Changed(displayCount, current)
            THEN /\ displayCount' = current
                 /\ counterLabel' = CounterText(LabelInput(displayCount, current))
                 /\ anim' = "down"
                 /\ animTo' = BOUNCE_HEIGHT
                 /\ animLeft' = BounceLegMs
                 /\ bounces' = bounces + 1
            ELSE UNCHANGED <<displayCount, counterLabel, anim, animTo, animLeft, bounces>>
    /\ UNCHANGED <<mainVars, renderVars, cellVal, workerVars, ballY,
                   tickHist, resizes, jamHist, fires, rocketVars>>

\* the running leg reaches its target; the completion callback of the
\* first leg starts the leg back to 0
MutAnimEndNoChain ==
    /\ anim # "rest"
    /\ animLeft = 0
    /\ ballY' = animTo
    /\ anim' = "rest"
    /\ UNCHANGED <<mainVars, renderVars, cellVal, workerVars, displayCount, counterLabel,
                   animTo, animLeft, histVars, rocketVars>>
AnimEnd ==
    /\ anim # "rest"
    /\ animLeft = 0
    /\ ballY' = animTo
    /\ IF anim = "down"
         THEN /\ anim' = "up"
              /\ animTo' = 0
              /\ animLeft' = BounceLegMs
         ELSE /\ anim' = "rest"
              /\ UNCHANGED <<animTo, animLeft>>
    /\ UNCHANGED <<mainVars, renderVars, cellVal, workerVars, displayCount, counterLabel,
                   histVars, rocketVars>>

\* ------------------------------------------------------------------
\* RocketAppleColumn (UI thread)

\* Math.round(x) for x = num / den, den > 0: the nearest integer, halves up
Round(num, den) == (2 * num + den) \div (2 * den)
\* interpolate(pos, [0, maxHeight], [0, 360]): 360 * pos / maxHeight
\* getAngle = Math.round(interpolate(...))
MutGetAngleReversed(pos, maxHeight) == Round(360 * (maxHeight - pos), maxHeight)
getAngle(pos, maxHeight) == Round(360 * pos, maxHeight)

\* the values rocketPos can have at a frame: between the value it had when
\* the program was assigned and the program's target
RocketRange ==
    { p \in 0..Max(rocketFrom, rocketTarget) :
        /\ p >= rocketFrom \/ p >= rocketTarget
        /\ p % rocketGrain = 0 \/ p = rocketTarget }

\* one frame of the rocket column: both mappers read rocketPos.value and
\* bounceHeight
RocketFrame ==
    /\ mounted
    /\ \E p \in RocketRange :
        /\ rocketPos' = p
        /\ appleRotation' = getAngle(p, BOUNCE_HEIGHT)
        /\ angleLabel' = getAngle(p, BOUNCE_HEIGHT)
    /\ UNCHANGED <<mainVars, rocketFrom, rocketGrain, renderVars, cellVal, workerVars,
                   uiVars, histVars>>

\* ------------------------------------------------------------------
\* Time: TimeStep ms pass. The worker fires as soon as it is due and the
\* busy-wait ends as soon as its deadline is reached, so time does not pass
\* over either (a worker that has reached MaxCount is halted).
AdvanceTime ==
    /\ workerPc = "idle"
    /\ workerLeft > 0 \/ fires >= MaxCount \/ runtimes = 0
    /\ blocking # 0 => Spins(elapsed)
    /\ blocking # 0 \/ workerLeft > 0 \/ animLeft > 0
    /\ workerLeft' = Max(0, workerLeft - TimeStep)
    /\ animLeft' = Max(0, animLeft - TimeStep)
    /\ elapsed' = IF blocking # 0 THEN elapsed + TimeStep ELSE elapsed
    /\ UNCHANGED <<mounted, SCREEN_HEIGHT, bridgePos, bridgeDirection, intervals, tickDue,
                   isJammed, touches, jamQueue, blocking, rocketTarget, rocketAssigns,
                   renderVars, cellVal, workerPc, workerPrev,
                   displayCount, ballY, anim, animTo, counterLabel, histVars,
                   rocketVars>>

\* ------------------------------------------------------------------
MainThreadNext ==
    \/ Tick
    \/ jamJSThread
    \/ JamTimeout
    \/ BlockEnd
    \/ Resize
    \/ Unmount
WorkerNext ==
    \/ WorkerStart
    \/ WorkerLock
    \/ WorkerWrite
Next ==
    \/ IntervalElapse
    \/ Touch
    \/ AdvanceTime
    \/ Tick
    \/ jamJSThread
    \/ JamTimeout
    \/ BlockEnd
    \/ Resize
    \/ Unmount
    \/ WorkerStart
    \/ WorkerLock
    \/ WorkerWrite
    \/ Frame
    \/ AnimEnd
    \/ RocketFrame

Spec == Init /\ [][Next]_vars

\* The ticker alone, at a fixed bound and never blocked, counted for LongRun ticks
TickerInit == InitWith(TickerHeights, LongRun) /\ rocketGrain = RocketCoarse
TickerNext ==
    \/ IntervalElapse
    \/ Tick
TickerSpec == TickerInit /\ [][TickerNext]_vars

\* The ticker and the layout: the window height may change
LayoutNext ==
    \/ IntervalElapse
    \/ Tick
    \/ Resize
LayoutSpec == TickerInit /\ [][LayoutNext]_vars

\* The rocket column alone: getAngle applied, at each bound of AngleHeights,
\* to every position from 0 to the bound
AngleInit == InitWith(AngleHeights, 0) /\ rocketGrain = 1
AngleNext ==
    \/ RocketFrame
AngleSpec == AngleInit /\ [][AngleNext]_vars

\* Slices of Next. The UI thread writes only uiVars and uiHist, which no
\* main-thread or worker step reads; the ticker and Resize write only the
\* ticker's state and the bound, which the worker never reads. Leaving a
\* domain out therefore changes nothing in what the others can do.

\* main thread, timers and worker, without the UI thread
MainNext ==
    \/ IntervalElapse
    \/ Touch
    \/ AdvanceTime
    \/ Tick
    \/ jamJSThread
    \/ JamTimeout
    \/ BlockEnd
    \/ Resize
    \/ Unmount
    \/ WorkerStart
    \/ WorkerLock
    \/ WorkerWrite
MainSpec == Init /\ [][MainNext]_vars

\* the jam action, the worker and the UI thread, without ticker and Resize
ColumnNext ==
    \/ Touch
    \/ AdvanceTime
    \/ jamJSThread
    \/ JamTimeout
    \/ BlockEnd
    \/ Unmount
    \/ WorkerStart
    \/ WorkerLock
    \/ WorkerWrite
    \/ Frame
    \/ AnimEnd
ColumnSpec == Init /\ [][ColumnNext]_vars

\* the jam action with the scheduling the runtimes guarantee: the JS event
\* loop runs a due timeout, the busy-wait loop exits once its deadline has
\* passed, the worker thread runs its loop, and time passes
JamNext ==
    \/ Touch
    \/ AdvanceTime
    \/ jamJSThread
    \/ JamTimeout
    \/ BlockEnd
    \/ Unmount
    \/ WorkerStart
    \/ WorkerLock
    \/ WorkerWrite
JamLive ==
    /\ Init
    /\ [][JamNext]_vars
    /\ WF_vars(JamTimeout)
    /\ WF_vars(BlockEnd)
    /\ WF_vars(AdvanceTime)
    /\ WF_vars(WorkerStart)
    /\ WF_vars(WorkerLock)
    /\ WF_vars(WorkerWrite)

\* The worker column with the UI thread on schedule: a frame runs every
\* 16 ms and a leg's completion callback runs in the frame in which the leg
\* ends, so no TimeStep passes while a changed counter waits for its frame
\* or a finished leg for its callback. The screen stays mounted.
FrameDue == mounted /\ Changed(displayCount, cellVal[pollerCell])
LegDue == anim # "rest" /\ animLeft = 0
UiAdvanceTime ==
    /\ ~FrameDue
    /\ ~LegDue
    /\ AdvanceTime
BounceNext ==
    \/ Touch
    \/ UiAdvanceTime
    \/ jamJSThread
    \/ JamTimeout
    \/ BlockEnd
    \/ WorkerStart
    \/ WorkerLock
    \/ WorkerWrite
    \/ Frame
    \/ AnimEnd
BounceLive ==
    /\ Init
    /\ [][BounceNext]_vars
    /\ WF_vars(UiAdvanceTime)
    /\ WF_vars(Frame)
    /\ WF_vars(AnimEnd)
    /\ WF_vars(JamTimeout)
    /\ WF_vars(BlockEnd)
    /\ WF_vars(WorkerStart)
    /\ WF_vars(WorkerLock)
    /\ WF_vars(WorkerWrite)

\* ==================================================================
\* Claims


\* The reflecting-bounce recurrence as the specification states it:
\* <<pos, dir>> after n more ticks from <<pos, dir>>, step 5, bound b (hundredths)
RECURSIVE RefBounceFrom(_, _, _, _)
RefBounceFrom(n, pos, dir, b) ==
    IF n = 0 THEN <<pos, dir>>
    ELSE LET next == pos + 5 * dir IN
         RefBounceFrom(n - 1, next,
                       IF next * 100 >= b \/ next <= 0 THEN -dir ELSE dir, b)
RefBounce(n, b) == RefBounceFrom(n, 0, 1, b)

\* C1: at a fixed bound, with the main thread never blocked, the position
\* (and direction) after N ticks is the recurrence applied N times from
\* pos = 0, dir = +1, for every N up to LongRun.
C1_TickerFollowsRecurrence ==
    ticks < tickBudget =>
        <<bridgePos, bridgeDirection>> = RefBounce(ticks, BOUNCE_HEIGHT)
\* past the tick that reaches the fallback bound 250 exactly and turns round
C1_Witness ==
    /\ SCREEN_HEIGHT = 0
    /\ ticks = 52
    /\ bridgePos = 240
    /\ bridgeDirection = -1

\* C3: in every state in which the main thread is inside the busy-wait the
\* worker's next step is enabled exactly as its own timer and loop position
\* say, time can pass towards its next firing, and a poller frame is enabled.
C3_OthersRunWhileBlocked ==
    blocking # 0 =>
        /\ mounted => ENABLED Frame
        /\ (workerPc = "idle" /\ workerLeft = 0 /\ fires < MaxCount) => ENABLED WorkerStart
        /\ workerPc = "busy" => ENABLED WorkerLock
        /\ workerPc = "locked" => ENABLED WorkerWrite
        /\ (workerPc = "idle" /\ workerLeft > 0 /\ Spins(elapsed)) => ENABLED AdvanceTime
\* during one block the worker completed two work units and the poller
\* mirrored the value and started a bounce
C3_Witness ==
    /\ blocking # 0
    /\ fires = firesAtBegin + 2
    /\ displayCount = cellVal[RefCell]
    /\ displayCount = fires
    /\ bounces > bouncesAtBegin

\* the cross-context counter: the value of the Synchronizable held by bgCount
Counter == cellVal[RefCell]

\* C4: the counter is 0 at start and always equals the number of completed
\* worker firings; it never decreases, and it changes only in the worker's
\* store step, by exactly 1, whatever poller reads happen in between.
C4_CounterCountsFirings ==
    /\ [](Counter = fires)
    /\ [][ /\ Counter' >= Counter
           /\ Counter' # Counter =>
                 /\ workerPc = "locked"
                 /\ workerPc' = "idle"
                 /\ Counter' = Counter + 1 ]_vars
\* the poller read the counter (1) while the worker was inside setBlocking
\* for its second firing, and the second firing then completed
C4_Witness ==
    /\ fires = 2
    /\ Counter = 2
    /\ lastSeen = 1
    /\ displayCount = 1
    /\ workerPc = "idle"

\* C5: the poller has never started more bounces than the counter has had
\* increments, and a frame that reads the value the preceding frame read
\* starts no animation (and writes nothing a bounce writes).
C5_BounceOncePerChange ==
    /\ [](bounces <= Counter)
    /\ [][ (Frame /\ lastSeen = cellVal[pollerCell]) =>
              UNCHANGED <<bounces, displayCount, anim, animTo, animLeft>> ]_vars
\* after a bounce was started, a later frame read the same value again
C5_Witness ==
    /\ sawSame
    /\ bounces = 1
    /\ fires = 1
    /\ lastSeen = 1
    /\ anim = "down"

\* the events of jam id, in the order they were logged
RECURSIVE EventsOf(_, _)
EventsOf(log, id) ==
    IF log = <<>> THEN <<>>
    ELSE IF Head(log)[1] = id THEN <<Head(log)[2]>> \o EventsOf(Tail(log), id)
    ELSE EventsOf(Tail(log), id)
JamOrder == <<"true", "begin", "end", "false">>
IsPrefix(a, b) == Len(a) <= Len(b) /\ a = SubSeq(b, 1, Len(a))

\* C6: the steps of every jam action happen in the order: flag set to true,
\* busy-wait begins, busy-wait ends, flag set to false; so far as a jam has
\* got, its events are the first ones of that order, and a jam that is
\* scheduled or blocking has set the flag to true before.
C6_JamStepsInOrder ==
    /\ \A id \in 1..MaxJams : IsPrefix(EventsOf(jamLog, id), JamOrder)
    /\ \A i \in 1..Len(jamQueue) : EventsOf(jamLog, jamQueue[i]) = <<"true">>
    /\ blocking # 0 => EventsOf(jamLog, blocking) = <<"true", "begin">>
\* two jams, the second pressed before the first block began, both run to the end
C6_Witness ==
    /\ Len(jamLog) = 8
    /\ jamLog[2] = <<2, "true">>
    /\ jamLog[8] = <<2, "false">>

\* C7 (as claimed): whenever the main thread is inside the busy-wait, the
\* jammed flag is true.
C7_FlagTrueWhileBlocked ==
    blocking # 0 => isJammed

\* C8: however often the column re-renders, exactly one runtime has been
\* created, and the worker loop and the latest render's frame callback hold
\* the Synchronizable kept in the ref.
C8_OneRuntimeOneCell ==
    /\ runtimes = 1
    /\ workerCell = RefCell
    /\ pollerCell = RefCell
    /\ workerCell = pollerCell
\* after re-renders caused by a tick, a resize and a whole jam
C8_Witness ==
    /\ bridgePos > 0
    /\ resizes = 1
    /\ Len(jamLog) = 4
    /\ runtimes = 1
    /\ fires = 1

\* what the worker can see of the state
WorkerView == <<workerPc, workerPrev, workerLeft, Counter, fires>>

\* C9: no step of the main thread (tick, press handler, block begin and end,
\* resize with its re-render, unmount), no touch and no elapsed interval
\* period changes what the worker sees or whether a worker step is enabled,
\* and time never passes over a worker firing that is due: the worker's run
\* is the same whatever the main thread does.
C9_WorkerIndependent ==
    /\ [][ (MainThreadNext \/ Touch \/ IntervalElapse) =>
              /\ UNCHANGED WorkerView
              /\ (ENABLED WorkerNext)' <=> ENABLED WorkerNext ]_vars
    /\ [][ AdvanceTime => ~ENABLED WorkerNext ]_vars
\* the second worker firing is due while the main thread is inside a block
C9_Witness ==
    /\ blocking # 0
    /\ elapsed > 0
    /\ fires = 1
    /\ workerLeft = 0
    /\ workerPc = "idle"

Scheduled(id) == \E i \in 1..Len(jamQueue) : jamQueue[i] = id
Logged(id, ev) == \E i \in 1..Len(jamLog) : jamLog[i] = <<id, ev>>

\* C10: a jam that has been invoked is never cancelled. Its block eventually
\* begins, mounted or not; the block ends only when 3000 ms have passed;
\* setIsJammed(false) eventually runs for it, and on a screen that is still
\* mounted the flag is false right after.
C10_JamRunsToEnd ==
    /\ \A id \in 1..MaxJams : Scheduled(id) ~> (blocking = id)
    /\ \A id \in 1..MaxJams : (blocking = id) ~> Logged(id, "false")
    /\ [][ \A id \in 1..MaxJams :
              Scheduled(id) => Scheduled(id)' \/ blocking' = id ]_vars
    /\ [][ (blocking # 0 /\ blocking' = 0) =>
              /\ elapsed >= JamDuration
              /\ mounted => ~isJammed' ]_vars
\* the screen was unmounted during the 50 ms delay and the block still ran
C10_Witness ==
    jamLog = << <<1, "true">>, <<0, "unmount">>, <<1, "begin">>,
                <<1, "end">>, <<1, "false">> >>

\* C11: for every bound, getAngle is 0 at position 0 and 360 at the bound;
\* for a position in [0, bound] the angle shown is an integer in [0, 360] and
\* no smaller than the angle of any lower position; the two calls of one
\* frame (rotation style and label) give the same result.
C11_AngleEndsRangeMonotone ==
    /\ getAngle(0, BOUNCE_HEIGHT) = 0
    /\ getAngle(BOUNCE_HEIGHT, BOUNCE_HEIGHT) = 360
    /\ rocketPos \in 0..BOUNCE_HEIGHT =>
          /\ appleRotation \in 0..360
          /\ \A q \in 0..rocketPos : getAngle(q, BOUNCE_HEIGHT) <= appleRotation
    /\ angleLabel = appleRotation
\* bound 5.6, position 0.07: 360 * 7 / 560 = 4.5, shown as 5
C11_Witness ==
    /\ SCREEN_HEIGHT = 16
    /\ rocketPos = 7
    /\ appleRotation = 5
    /\ angleLabel = 5

\* C12: the bound is 35% of the window height when the height is positive
\* and 250 otherwise; it is positive in every state, so the guard of the
\* rocketPos effect has let every run of the effect assign the program.
C12_BoundFromViewport ==
    /\ SCREEN_HEIGHT > 0 => 100 * BOUNCE_HEIGHT = 35 * (100 * SCREEN_HEIGHT)
    /\ SCREEN_HEIGHT <= 0 => BOUNCE_HEIGHT = 250 * 100
    /\ BOUNCE_HEIGHT > 0
    /\ rocketAssigns >= 1
    /\ rocketTarget > 0
\* the ticker ran up to the fallback bound while the height was unknown, and
\* the height then became 40
C12_Witness ==
    /\ bridgePos = 250
    /\ resizes = 1
    /\ SCREEN_HEIGHT = 40
    /\ rocketTarget = 1400

\* C13: over one busy-wait of 3000 ms the counter goes up by 1, 2 or 3
\* (3000 / 1500 = 2, give or take one), whatever the position of the worker's
\* timer and loop when the busy-wait began. firesAtBegin is the number of
\* completed firings, and so the counter, at that moment. (A worker stopped
\* by the bound of the model is left out.)
C13_CounterDuringBlock ==
    /\ [](blocking # 0 => Counter - firesAtBegin \in 0..3)
    /\ [][ (blocking # 0 /\ blocking' = 0 /\ fires < MaxCount) =>
              Counter' - firesAtBegin \in 1..3 ]_vars
\* a block that began with a firing due and ended just after another
C13_Witness ==
    /\ blocking = 0
    /\ Len(jamLog) = 4
    /\ firesAtBegin = 0
    /\ Counter = 3

\* C14: every poller frame leaves displayCount equal to the counter, so the
\* first frame after a counter write (and the first frame after a block
\* ends) brings displayCount up to the latest value; the label written in
\* that frame shows the updated displayCount, and the label never differs
\* from displayCount.
C14_MirrorWithinOneFrame ==
    /\ [][ Frame => /\ displayCount' = Counter
                    /\ counterLabel' = CounterText(displayCount') ]_vars
    /\ [](counterLabel = CounterText(displayCount))
\* no frame ran while the worker fired twice; the first frame after the
\* block mirrored 2 at once, label included
C14_Witness ==
    /\ blocking = 0
    /\ Len(jamLog) = 4
    /\ Counter = 2
    /\ displayCount = 2
    /\ counterLabel = 2
    /\ bounces = 1

\* C15: once the screen is unmounted no ticker interval is active and no
\* callback of it is pending, and the position and direction never change
\* again, whatever runs afterwards (time, the worker, a jam still scheduled).
C15_TickerStopsAtUnmount ==
    /\ [](~mounted => intervals = 0 /\ tickDue = 0)
    /\ [][ ~mounted' => UNCHANGED <<bridgePos, bridgeDirection>> ]_vars
\* unmounted after two ticks; a jam scheduled before ran afterwards and the
\* position stayed
C15_Witness ==
    /\ ~mounted
    /\ bridgePos = 10
    /\ tickDue = 0
    /\ Len(jamLog) = 5
    /\ jamLog[2] = <<0, "unmount">>
    /\ jamLog[5] = <<1, "false">>

\* C16: a frame that reads a counter value equal to displayCount writes
\* nothing: displayCount, ballY, the running animation and the label stay as
\* they are and no bounce starts; and no frame, equal or not, writes a
\* Synchronizable.
C16_EqualFrameWritesNothing ==
    /\ [][ (Frame /\ displayCount = Counter) => UNCHANGED <<uiVars, bounces>> ]_vars
    /\ [][ Frame => UNCHANGED cellVal ]_vars
\* a frame read 2 again while the leg back to 0 of the second bounce ran
C16_Witness ==
    /\ sawSame
    /\ lastSeen = 2
    /\ displayCount = 2
    /\ bounces = 2
    /\ anim = "up"
    /\ animLeft = BounceLegMs

\* C17 (as claimed): the ticker position is in [0, bound] in every state,
\* for every positive bound.
C17_PositionWithinBound ==
    /\ bridgePos >= 0
    /\ bridgePos * PctDen <= BOUNCE_HEIGHT

\* C18: at bound 250 the position is 245 with direction +1 after 49 ticks
\* and exactly 250 with direction -1 after 50; in general the tick whose next
\* equals the bound turns the direction to -1 and the tick whose next equals
\* 0 turns it to +1.
C18_FlipExactlyAtBound ==
    /\ [](SCREEN_HEIGHT = 0 =>
            /\ ticks = 49 => (bridgePos = 245 /\ bridgeDirection = 1)
            /\ ticks = 50 => (bridgePos = 250 /\ bridgeDirection = -1))
    /\ [][ bridgePos' # bridgePos =>
              /\ bridgePos' * PctDen = BOUNCE_HEIGHT =>
                    (bridgeDirection = 1 /\ bridgeDirection' = -1)
              /\ bridgePos' = 0 =>
                    (bridgeDirection = -1 /\ bridgeDirection' = 1) ]_vars
\* the 50th tick at the fallback bound
C18_Witness ==
    /\ SCREEN_HEIGHT = 0
    /\ BOUNCE_HEIGHT = FALLBACK_HEIGHT * PctDen
    /\ ticks = 50
    /\ bridgePos = 250
    /\ bridgeDirection = -1
    /\ tickDue = 0

\* C19: a bounce starts with the leg to the bound; the leg back to 0 starts
\* only in the step in which the first leg ends, with ballY then at the
\* bound, and a first leg ends in no other way; no bounce is cut short by
\* another; every running bounce leads to ballY at rest at 0; and the end of
\* a leg needs only the UI thread, so it is enabled while the main thread is
\* inside the busy-wait.
C19_BounceTwoPhase ==
    /\ [][ bounces' # bounces =>
              (anim = "rest" /\ anim' = "down" /\ animTo' = BOUNCE_HEIGHT) ]_vars
    /\ [][ (anim = "down" /\ anim' # "down") =>
              (animLeft = 0 /\ anim' = "up" /\ ballY' = BOUNCE_HEIGHT /\ animTo' = 0) ]_vars
    /\ [][ (anim' = "up" /\ anim # "up") => anim = "down" ]_vars
    /\ (anim # "rest") ~> (anim = "rest" /\ ballY = 0)
    /\ []((blocking # 0 /\ LegDue) => ENABLED AnimEnd)
\* a whole bounce, both legs, ran inside one busy-wait
C19_Witness ==
    /\ blocking # 0
    /\ bounces = bouncesAtBegin + 1
    /\ displayCount = firesAtBegin + 1
    /\ anim = "rest"
    /\ ballY = 0
    /\ elapsed = 2500

\* C20 (as claimed): the animation program is assigned to rocketPos exactly
\* once over the lifetime of the screen, also when the window height changes.
C20_AssignedOnce ==
    rocketAssigns = 1

\* C20 (amended): the program is assigned once at mount and once more each
\* time the bound changes, always with the current bound as target, and at
\* no other time: a step that leaves the bound as it is (tick, press
\* handler, block, unmount, with their re-renders) does not write rocketPos.
C20_AssignedOncePerBound ==
    /\ [](rocketAssigns = 1 + resizes /\ rocketTarget = BOUNCE_HEIGHT)
    /\ [][ rocketAssigns' # rocketAssigns =>
              /\ BOUNCE_HEIGHT' # BOUNCE_HEIGHT
              /\ rocketAssigns' = rocketAssigns + 1
              /\ rocketTarget' = BOUNCE_HEIGHT' ]_vars
    /\ [][ BOUNCE_HEIGHT' = BOUNCE_HEIGHT =>
              UNCHANGED <<rocketTarget, rocketFrom, rocketAssigns>> ]_vars
\* one change of the height, and re-renders by two ticks and a whole jam
C20_Witness ==
    /\ SCREEN_HEIGHT = 40
    /\ rocketTarget = 1400
    /\ rocketAssigns = 2
    /\ bridgePos = 10
    /\ Len(jamLog) = 4

\* C21: at a fixed bound the direction is +1 or -1, the position is a
\* multiple of 5 that is never negative, and the position is strictly below
\* bound + 5: it passes the bound by less than one step.
C21_OvershootUnderOneStep ==
    /\ bridgeDirection \in {1, -1}
    /\ bridgePos >= 0
    /\ bridgePos % STEP = 0
    /\ bridgePos * PctDen < BOUNCE_HEIGHT + STEP * PctDen
\* bound 7: the position is 10, above the bound, on its way down
C21_Witness ==
    /\ SCREEN_HEIGHT = 20
    /\ ticks = 6
    /\ bridgePos = 10
    /\ bridgeDirection = -1

\* the lower of the two positions the ticker is moving between
LowOfPair == IF bridgeDirection = 1 THEN bridgePos ELSE bridgePos - STEP
\* both of them are at or above the bound
Trapped == LowOfPair * PctDen >= BOUNCE_HEIGHT

\* C22: a change of the bound leaves position and direction as they are.
\* When the position is at least 5 above the new bound, then, for as long
\* as that bound stays, every tick negates the direction and the position
\* goes to and fro between the same two values, 5 apart and both at or
\* above the bound; it does not come back below the bound.
C22_TrappedAboveShrunkBound ==
    /\ [][ SCREEN_HEIGHT' # SCREEN_HEIGHT =>
              /\ UNCHANGED <<bridgePos, bridgeDirection>>
              /\ (bridgePos - STEP) * PctDen >= BOUNCE_HEIGHT' => Trapped' ]_vars
    /\ [][ (Trapped /\ BOUNCE_HEIGHT' = BOUNCE_HEIGHT) =>
              /\ Trapped'
              /\ LowOfPair' = LowOfPair
              /\ bridgePos' * PctDen >= BOUNCE_HEIGHT
              /\ bridgePos' # bridgePos => bridgeDirection' = -bridgeDirection ]_vars
\* the bound went from 250 to 7 with the position at 250; three ticks later
\* the position is 245 again
C22_Witness ==
    /\ resizes = 1
    /\ SCREEN_HEIGHT = 20
    /\ ticks = 53
    /\ bridgePos = 245
    /\ bridgeDirection = 1
    /\ Trapped

\* C23: never more than one ticker interval is active (exactly one while
\* the screen is mounted, none after); a change of the bound clears the
\* old interval as it starts the new one; so a 16 ms period that elapses
\* makes at most one callback pending, and the position moves by exactly one
\* step of 5 for each callback that runs.
C23_OneIntervalOneStep ==
    /\ [](intervals <= 1 /\ (mounted <=> intervals = 1))
    /\ [][ tickDue' - tickDue <= 1 ]_vars
    /\ [][ SCREEN_HEIGHT' # SCREEN_HEIGHT => (intervals' = 1 /\ tickDue' = 0) ]_vars
    /\ [][ bridgePos' # bridgePos =>
              /\ bridgePos' - bridgePos \in {STEP, -STEP}
              /\ tickDue' = tickDue - 1 ]_vars
\* after a change of the bound with a callback of the old interval pending,
\* a period of the new interval has elapsed: one callback is pending
C23_Witness ==
    /\ resizes = 1
    /\ intervals = 1
    /\ tickDue = 1
    /\ bridgePos = 5
    /\ SCREEN_HEIGHT = 40

\* C24: displayCount is never above the counter and never goes down; each
\* change of displayCount brings it to the counter's value in one step, by
\* however many firings completed since the last frame, and starts exactly
\* one bounce.
C24_MirrorNeverAhead ==
    /\ [](displayCount <= Counter)
    /\ [][ displayCount' >= displayCount ]_vars
    /\ [][ displayCount' # displayCount =>
              /\ displayCount' = Counter
              /\ bounces' = bounces + 1 ]_vars
\* three firings completed before the first frame ran: displayCount went
\* from 0 to 3 in one frame, with one bounce
C24_Witness ==
    /\ displayCount = 3
    /\ lastSeen = 3
    /\ bounces = 1
    /\ anim = "down"
    /\ ~sawSame

\* how many times event ev has been logged
CountEv(ev) == Cardinality({i \in 1..Len(jamLog) : jamLog[i][2] = ev})

\* C25: every press that is handled schedules a timeout of its own, whatever
\* the flag and whatever is already scheduled, and it is handled only while
\* the main thread is not inside a busy-wait; every such press gets exactly
\* one block: the presses handled are those still scheduled plus those
\* whose block has begun; at most one block is running at a time; a block
\* ends when 3000 ms have passed; and the block of every handled press
\* eventually runs to its end.
C25_EveryPressItsOwnBlock ==
    /\ [][ jams' # jams =>
              /\ blocking = 0
              /\ jams' = jams + 1
              /\ touches' = touches - 1
              /\ jamQueue' = Append(jamQueue, jams') ]_vars
    /\ [](CountEv("begin") + Len(jamQueue) = jams)
    /\ [](CountEv("begin") - CountEv("end") = (IF blocking # 0 THEN 1 ELSE 0))
    /\ [][ (blocking # 0 /\ blocking' = 0) =>
              (elapsed = JamDuration /\ CountEv("end")' = CountEv("end") + 1) ]_vars
    /\ \A id \in 1..MaxJams : Logged(id, "true") ~> Logged(id, "end")
\* the second press was handled after the first block had ended, and both
\* blocks have run
C25_Witness ==
    /\ jams = 2
    /\ CountEv("end") = 2
    /\ jamLog[4] = <<1, "false">>
    /\ jamLog[5] = <<2, "true">>
    /\ blocking = 0

=============================================================================
